---- MODULE Spec2Model ----
(***************************************************************************)
(* Pump Studio agent: the deterministic heuristic analyzer                 *)
(* (src/src/analyzer.ts), analyze(DataPoint) -> AnalysisResult.            *)
(*                                                                         *)
(* The agent's main() (src/src/index.ts) drives the API client around it.  *)
(*                                                                         *)
(* Representation.                                                         *)
(*  - A nullable number is a sequence: <<>> is null/undefined, <<n>> is    *)
(*    the number n.  A nullable string is <<>> or <<s>>.                   *)
(*  - Counts, dollar amounts and millisecond times are integers.           *)
(*  - Percentages (price changes, holdings, bonding progress) are integers *)
(*    in hundredths of a percent: Pct(80) is 80%, Pct(80) + 10 is 80.1%.   *)
(*  - Arithmetic is exact: a quotient is kept as numerator and denominator *)
(*    and Math.round is applied to the exact value.  The rounding error of *)
(*    IEEE doubles is not modelled.                                        *)
(***************************************************************************)
EXTENDS Integers, Sequences, FiniteSets

VARIABLES pc, dp, now, result, args, apiKey, calls, reply, exit

vars == <<pc, dp, now, result, args, apiKey, calls, reply, exit>>

(* ---- Number representation ---- *)

Null == <<>>

Some(n) == <<n>>

Opt(S) == {Null} \cup {Some(n) : n \in S}

Pct(n) == 100 * n

Min(a, b) == IF a < b THEN a ELSE b

Max(a, b) == IF a > b THEN a ELSE b

\* Math.round of the exact quotient num/den, den > 0: nearest integer, a tie
\* going up (towards +Infinity), as Math.round does.
MathRound(num, den) == (2 * num + den) \div (2 * den)

(* ---- Utility ---- *)

\* clamp with the lower bound forgotten.
clampNoLowerBound(n, min, max) == Min(max, n)

clamp(n, min, max) == Max(min, Min(max, n))

safe(n, fallback) == IF n # Null THEN n[1] ELSE fallback

\* JavaScript truthiness of a nullable string: null and "" are falsy.
Truthy(s) == s # Null /\ s[1] # ""

(* ---- Extract top10 holder percentage ---- *)

RECURSIVE SumPct(_)
SumPct(hs) == IF hs = <<>> THEN 0 ELSE safe(hs[1].pct, 0) + SumPct(Tail(hs))

\* The holders list summed whole, with no slice(0, 10).
Slice10Missing(hs) == hs

Slice10(hs) == IF Len(hs) <= 10 THEN hs ELSE SubSeq(hs, 1, 10)

computeTop10Pct(d) ==
  IF d.top10Holding # Null THEN d.top10Holding[1]
  ELSE IF Len(d.topHolders) > 0 THEN SumPct(Slice10(d.topHolders))
  ELSE 0

(* ---- Buy pressure: buys / (buys + sells + 1) * 100 ---- *)

\* Buy pressure without the +1 in the denominator.
computeBuyPressureUnsmoothed(d) ==
  LET buys == safe(d.buys24h, 0)
      sells == safe(d.sells24h, 0)
  IN  IF buys + sells = 0 THEN 50
      ELSE Max(0, Min(100, MathRound(buys * 100, buys + sells)))

computeBuyPressure(d) ==
  LET buys == safe(d.buys24h, 0)
      sells == safe(d.sells24h, 0)
  IN  IF buys + sells = 0 THEN 50
      ELSE clamp(MathRound(buys * 100, buys + sells + 1), 0, 100)

(* ---- Volatility score: volume/mcap ratio mapped to 10-95 ---- *)

\* The four band formulas before clamping, for ratio = vol / mcap, mcap > 0.
\* An integer constant is taken out of Math.round, which does not change it.
VolLow(vol, mcap) == 10 + MathRound(vol * 300, mcap)

\* The moderate band with slope 160 in place of 166.
VolModerateSlope160(vol, mcap) == 25 + MathRound((20 * vol - mcap) * 160, 20 * mcap)

VolModerate(vol, mcap) == 25 + MathRound((20 * vol - mcap) * 166, 20 * mcap)

VolHigh(vol, mcap) == 50 + MathRound((5 * vol - mcap) * 83, 5 * mcap)

VolExtreme(vol, mcap) == 75 + MathRound((2 * vol - mcap) * 40, 2 * mcap)

computeVolatilityScore(d) ==
  LET vol == safe(d.volume24h, 0)
      mcap == safe(d.marketCap, 1)
  IN  IF mcap <= 0 THEN 50
      ELSE IF 20 * vol < mcap THEN clamp(VolLow(vol, mcap), 10, 25)
      ELSE IF 5 * vol < mcap THEN clamp(VolModerate(vol, mcap), 25, 50)
      ELSE IF 2 * vol < mcap THEN clamp(VolHigh(vol, mcap), 50, 75)
      ELSE clamp(VolExtreme(vol, mcap), 75, 95)

(* ---- Liquidity depth ---- *)

\* The liquidity ladder with strict comparisons.
computeLiquidityDepthExclusive(d) ==
  LET liq == safe(d.liquidity, 0)
  IN  IF liq > 1000000 THEN "deep"
      ELSE IF liq > 250000 THEN "moderate"
      ELSE IF liq > 50000 THEN "shallow"
      ELSE "dry"

\* The liquidity ladder with an absent liquidity read as 50,000.
computeLiquidityDepthAbsentShallow(d) ==
  LET liq == safe(d.liquidity, 50000)
  IN  IF liq >= 1000000 THEN "deep"
      ELSE IF liq >= 250000 THEN "moderate"
      ELSE IF liq >= 50000 THEN "shallow"
      ELSE "dry"

computeLiquidityDepth(d) ==
  LET liq == safe(d.liquidity, 0)
  IN  IF liq >= 1000000 THEN "deep"
      ELSE IF liq >= 250000 THEN "moderate"
      ELSE IF liq >= 50000 THEN "shallow"
      ELSE "dry"

(* ---- Holder concentration ---- *)

\* The concentration ladder with inclusive comparisons.
computeHolderConcentrationInclusive(top10Pct) ==
  IF top10Pct >= Pct(80) THEN "whale_dominated"
  ELSE IF top10Pct >= Pct(50) THEN "concentrated"
  ELSE IF top10Pct >= Pct(20) THEN "moderate"
  ELSE "distributed"

computeHolderConcentration(top10Pct) ==
  IF top10Pct > Pct(80) THEN "whale_dominated"
  ELSE IF top10Pct > Pct(50) THEN "concentrated"
  ELSE IF top10Pct > Pct(20) THEN "moderate"
  ELSE "distributed"

(* ---- Trend direction ---- *)

\* The fallback with no guard for zero activity: the ratio counts as 0.
computeTrendDirectionZeroRatio(d) ==
  LET ch1h == safe(d.priceChange1h, 0)
      ch24h == safe(d.priceChange24h, 0)
      buys == safe(d.buys24h, 0)
      sells == safe(d.sells24h, 0)
      combined10 == ch1h * 6 + ch24h * 4
  IN  IF d.priceChange1h # Null \/ d.priceChange24h # Null
      THEN IF ch1h > Pct(5) /\ ch24h < Pct(-10) THEN "reversal"
           ELSE IF ch1h < Pct(-5) /\ ch24h > Pct(10) THEN "reversal"
           ELSE IF combined10 > 10 * Pct(3) THEN "up"
           ELSE IF combined10 < 10 * Pct(-3) THEN "down"
           ELSE "sideways"
      ELSE IF buys + sells = 0 THEN "down"
           ELSE IF 10 * buys > 6 * (buys + sells) THEN "up"
           ELSE IF 10 * buys < 4 * (buys + sells) THEN "down"
           ELSE "sideways"

\* The blend tested before the reversal conditions.
computeTrendDirectionBlendFirst(d) ==
  LET ch1h == safe(d.priceChange1h, 0)
      ch24h == safe(d.priceChange24h, 0)
      buys == safe(d.buys24h, 0)
      sells == safe(d.sells24h, 0)
      combined10 == ch1h * 6 + ch24h * 4
  IN  IF d.priceChange1h # Null \/ d.priceChange24h # Null
      THEN IF combined10 > 10 * Pct(3) THEN "up"
           ELSE IF combined10 < 10 * Pct(-3) THEN "down"
           ELSE IF ch1h > Pct(5) /\ ch24h < Pct(-10) THEN "reversal"
           ELSE IF ch1h < Pct(-5) /\ ch24h > Pct(10) THEN "reversal"
           ELSE "sideways"
      ELSE IF buys + sells = 0 THEN "sideways"
           ELSE IF 10 * buys > 6 * (buys + sells) THEN "up"
           ELSE IF 10 * buys < 4 * (buys + sells) THEN "down"
           ELSE "sideways"

computeTrendDirection(d) ==
  LET ch1h == safe(d.priceChange1h, 0)
      ch24h == safe(d.priceChange24h, 0)
      buys == safe(d.buys24h, 0)
      sells == safe(d.sells24h, 0)
      \* combined = ch1h * 0.6 + ch24h * 0.4, kept times 10
      combined10 == ch1h * 6 + ch24h * 4
  IN  IF d.priceChange1h # Null \/ d.priceChange24h # Null
      THEN IF ch1h > Pct(5) /\ ch24h < Pct(-10) THEN "reversal"
           ELSE IF ch1h < Pct(-5) /\ ch24h > Pct(10) THEN "reversal"
           ELSE IF combined10 > 10 * Pct(3) THEN "up"
           ELSE IF combined10 < 10 * Pct(-3) THEN "down"
           ELSE "sideways"
      ELSE IF buys + sells = 0 THEN "sideways"
           \* ratio = buys / (buys + sells); ratio > 0.6, ratio < 0.4
           ELSE IF 10 * buys > 6 * (buys + sells) THEN "up"
           ELSE IF 10 * buys < 4 * (buys + sells) THEN "down"
           ELSE "sideways"

(* ---- Volume profile ---- *)

\* Volume profile with no result when the market cap is absent.
computeVolumeProfileNoResult(d) ==
  LET vol == safe(d.volume24h, 0)
      mcap == safe(d.marketCap, 1)
  IN  IF d.marketCap = Null THEN "undefined"
      ELSE IF mcap <= 0 THEN "dead"
      ELSE IF 2 * vol > mcap THEN "surging"
      ELSE IF 100 * vol > 15 * mcap THEN "rising"
      ELSE IF 100 * vol > 3 * mcap THEN "stable"
      ELSE IF 1000 * vol > 5 * mcap THEN "declining"
      ELSE "dead"

computeVolumeProfile(d) ==
  LET vol == safe(d.volume24h, 0)
      mcap == safe(d.marketCap, 1)
  IN  IF mcap <= 0 THEN "dead"
      ELSE IF 2 * vol > mcap THEN "surging"
      ELSE IF 100 * vol > 15 * mcap THEN "rising"
      ELSE IF 100 * vol > 3 * mcap THEN "stable"
      ELSE IF 1000 * vol > 5 * mcap THEN "declining"
      ELSE "dead"

(* ---- Risk factors ---- *)

\* One line of the checklist: push the tag when the condition holds.
Push(cond, tag) == IF cond THEN <<tag>> ELSE <<>>

InSeq(x, s) == \E i \in 1..Len(s) : s[i] = x

\* [...new Set(factors)]: first occurrences, in order.
RECURSIVE Dedupe(_, _)
Dedupe(s, seen) ==
  IF s = <<>> THEN seen
  ELSE Dedupe(Tail(s), IF InSeq(Head(s), seen) THEN seen ELSE Append(seen, Head(s)))

\* slice(-n): the last n elements.
SliceLast(s, n) == IF Len(s) <= n THEN s ELSE SubSeq(s, Len(s) - n + 1, Len(s))

\* slice(0, n)
Slice(s, n) == IF Len(s) <= n THEN s ELSE SubSeq(s, 1, n)

\* The factors pushed by the checklist, before deduplication, fallback and cap.
checklist(d, top10Pct) ==
  LET buys == safe(d.buys24h, 0)
      sells == safe(d.sells24h, 0)
  IN  Push(safe(d.liquidity, 0) < 50000, "low_liquidity")
   \o Push(top10Pct > Pct(80), "whale_dominance")
   \o Push(top10Pct > Pct(50) /\ top10Pct <= Pct(80), "high_concentration")
   \o Push(d.creatorHolding # Null /\ d.creatorHolding[1] > Pct(30), "creator_holds_majority")
   \o Push(Len(d.topHolders) > 0 /\ d.topHolders[1].pct # Null
             /\ d.topHolders[1].pct[1] > Pct(50), "single_holder_majority")
   \o Push(~d.bondingComplete /\ safe(d.bondingProgress, 0) < Pct(30), "bonding_curve_risk")
   \o Push(~Truthy(d.website) /\ ~Truthy(d.twitter) /\ ~Truthy(d.telegram), "no_social_presence")
   \o Push(~Truthy(d.website), "no_website")
   \o Push(d.snipersHolding # Null /\ d.snipersHolding[1] > Pct(20), "dev_wallet_active")
   \o Push(d.insidersHolding # Null /\ d.insidersHolding[1] > Pct(15), "wash_trading")
   \o Push(sells > buys * 2 /\ sells > 20, "rapid_sell_off")
   \o Push(safe(d.volume24h, 0) < 1000 /\ safe(d.holderCount, 0) > 100, "dead_volume")
   \o Push(d.priceChange24h # Null /\ d.priceChange24h[1] < Pct(-20), "declining_holders")
   \o Push(top10Pct <= Pct(30) /\ safe(d.holderCount, 0) > 200, "healthy_distribution")
   \o Push(Truthy(d.twitter) \/ Truthy(d.telegram), "verified_socials")
   \* buys > sells * 0.8
   \o Push(safe(d.volume24h, 0) > 50000 /\ 10 * buys > 8 * sells, "organic_volume")
   \o Push(safe(d.holderCount, 0) > 500, "growing_holders")
   \o Push(Truthy(d.twitter), "strong_community")

\* The risk factors with low_liquidity as the only fallback tag.
computeRiskFactorsFallbackLowLiquidity(d, top10Pct) ==
  LET deduped == Dedupe(checklist(d, top10Pct), <<>>)
      filled == IF Len(deduped) = 0 THEN <<"low_liquidity">> ELSE deduped
  IN  Slice(filled, 8)

\* The risk factors without the cap at 8.
computeRiskFactorsUncapped(d, top10Pct) ==
  LET deduped == Dedupe(checklist(d, top10Pct), <<>>)
  IN  IF Len(deduped) = 0
      THEN <<IF safe(d.liquidity, 0) >= 50000 THEN "organic_volume" ELSE "low_liquidity">>
      ELSE deduped

computeRiskFactors(d, top10Pct) ==
  LET deduped == Dedupe(checklist(d, top10Pct), <<>>)
      filled == IF Len(deduped) = 0
                THEN <<IF safe(d.liquidity, 0) >= 50000 THEN "organic_volume"
                       ELSE "low_liquidity">>
                ELSE deduped
  IN  Slice(filled, 8)

(* ---- Risk level ---- *)

negativeFactors ==
  { "whale_dominance", "creator_holds_majority", "low_liquidity", "no_liquidity_lock",
    "high_concentration", "rug_pattern", "honeypot_risk", "wash_trading",
    "bonding_curve_risk", "rapid_sell_off", "no_social_presence", "fake_volume",
    "supply_manipulation", "dev_wallet_active", "copy_token", "no_website",
    "new_deployer", "single_holder_majority", "declining_holders", "dead_volume" }

criticalFactors == {"rug_pattern", "honeypot_risk", "single_holder_majority"}

\* factors.filter(f => set.includes(f))
Filter(s, set) == SelectSeq(s, LAMBDA f : f \in set)

\* The risk level with "medium" starting at two negative factors.
computeRiskLevelMediumAtTwo(factors, buyPressure) ==
  LET negCount == Len(Filter(factors, negativeFactors))
      hasCritical == \E i \in 1..Len(factors) : factors[i] \in criticalFactors
  IN  IF hasCritical \/ negCount >= 5 THEN "critical"
      ELSE IF negCount >= 3 \/ buyPressure < 25 THEN "high"
      ELSE IF negCount >= 2 THEN "medium"
      ELSE "low"

computeRiskLevel(factors, buyPressure) ==
  LET negCount == Len(Filter(factors, negativeFactors))
      hasCritical == \E i \in 1..Len(factors) : factors[i] \in criticalFactors
  IN  IF hasCritical \/ negCount >= 5 THEN "critical"
      ELSE IF negCount >= 3 \/ buyPressure < 25 THEN "high"
      ELSE IF negCount >= 1 THEN "medium"
      ELSE "low"

(* ---- Composite score ---- *)

\* The score with a reversal penalised like a down trend.
computeScoreReversalAsDown(buyPressure, volatilityScore, riskLevel, trendDirection, liquidityDepth) ==
  LET s1 == 2 * 50 + (buyPressure - 50)
      s2 == IF trendDirection = "up" THEN s1 + 2 * 10
            ELSE IF trendDirection \in {"down", "reversal"} THEN s1 - 2 * 10
            ELSE s1
      s3 == IF volatilityScore > 70 THEN s2 - 2 * 5 ELSE s2
      s4 == IF riskLevel = "critical" THEN s3 - 2 * 20
            ELSE IF riskLevel = "high" THEN s3 - 2 * 10
            ELSE IF riskLevel = "low" THEN s3 + 2 * 10
            ELSE s3
      s5 == IF liquidityDepth = "deep" THEN s4 + 2 * 5
            ELSE IF liquidityDepth = "dry" THEN s4 - 2 * 10
            ELSE s4
  IN  Max(0, Min(100, MathRound(s5, 2)))

\* The running score is a multiple of 0.5; it is kept doubled (score2).
computeScore(buyPressure, volatilityScore, riskLevel, trendDirection, liquidityDepth) ==
  LET s0 == 2 * 50
      s1 == s0 + (buyPressure - 50)
      s2 == IF trendDirection = "up" THEN s1 + 2 * 10
            ELSE IF trendDirection = "down" THEN s1 - 2 * 10
            ELSE IF trendDirection = "reversal" THEN s1 - 2 * 5
            ELSE s1
      s3 == IF volatilityScore > 70 THEN s2 - 2 * 5 ELSE s2
      s4 == IF riskLevel = "critical" THEN s3 - 2 * 20
            ELSE IF riskLevel = "high" THEN s3 - 2 * 10
            ELSE IF riskLevel = "low" THEN s3 + 2 * 10
            ELSE s3
      s5 == IF liquidityDepth = "deep" THEN s4 + 2 * 5
            ELSE IF liquidityDepth = "dry" THEN s4 - 2 * 10
            ELSE s4
  IN  clamp(MathRound(s5, 2), 0, 100)

(* ---- Sentiment from score ---- *)

\* The sentiment with no demotion for high risk.
computeSentimentIgnoringHigh(score, riskLevel) ==
  IF riskLevel = "critical" \/ score < 35 THEN "bearish"
  ELSE IF score > 65 THEN "bullish"
  ELSE "neutral"

computeSentiment(score, riskLevel) ==
  IF riskLevel = "critical" \/ score < 35 THEN "bearish"
  ELSE IF score > 65 /\ riskLevel # "high" THEN "bullish"
  ELSE "neutral"

(* ---- Format compact number ---- *)

\* toFixed(k) of a value given in units of 1/scale: the digits, with the
\* number of decimals they carry (12.3 is digits 123, decimals 1).
Fixed(digits, decimals) == [digits |-> digits, decimals |-> decimals]

formatCompact(n) ==
  IF n >= 1000000000 THEN <<Fixed(MathRound(n, 100000000), 1), "B">>
  ELSE IF n >= 1000000 THEN <<Fixed(MathRound(n, 100000), 1), "M">>
  ELSE IF n >= 1000 THEN <<Fixed(MathRound(n, 100), 1), "K">>
  ELSE <<Fixed(n, 0), "">>

(* ---- Summary text ---- *)

\* The positive tags with organic_volume left out.
positiveFactorsWithoutOrganicVolume ==
  { "healthy_distribution", "strong_community",
    "locked_liquidity", "verified_socials", "active_development",
    "growing_holders", "smart_money_inflow" }

positiveFactors ==
  { "healthy_distribution", "strong_community", "organic_volume",
    "locked_liquidity", "verified_socials", "active_development",
    "growing_holders", "smart_money_inflow" }

Abs(n) == IF n < 0 THEN -n ELSE n

toUpperCase(sentiment) ==
  CASE sentiment = "bullish" -> "BULLISH"
    [] sentiment = "bearish" -> "BEARISH"
    [] sentiment = "neutral" -> "NEUTRAL"

\* The summary is kept as its header and the sequence of sentence fragments
\* that are joined with ". "; a fragment is its fixed words (first element)
\* and the values interpolated into it.
generateSummary(d, sentiment, score, quant, top10Pct) ==
  LET mcap == safe(d.marketCap, 0)
      vol == safe(d.volume24h, 0)
      buys == safe(d.buys24h, 0)
      sells == safe(d.sells24h, 0)
      negFactors == SelectSeq(quant.riskFactors, LAMBDA f : f \notin positiveFactors)
      parts ==
           Push(d.priceChange1h # Null,
                <<"Price", IF safe(d.priceChange1h, 0) >= 0 THEN "up" ELSE "down",
                  Fixed(MathRound(Abs(safe(d.priceChange1h, 0)), 10), 1)>>)
        \o Push(mcap > 0, <<"mcap", formatCompact(mcap), formatCompact(vol)>>)
        \o <<(<<"top 10 wallets hold", Fixed(MathRound(top10Pct, 10), 1),
               quant.holderConcentration>>)>>
        \o <<(<<"liquidity", quant.liquidityDepth, formatCompact(safe(d.liquidity, 0))>>)>>
        \o <<(<<"buys vs sells", buys, sells, quant.buyPressure>>)>>
        \o Push(Len(negFactors) > 0, <<"risk factors", negFactors>>)
        \o Push(~d.bondingComplete,
                <<"bonding curve", Fixed(MathRound(safe(d.bondingProgress, 0), 100), 0)>>)
  IN  [sentimentLabel |-> toUpperCase(sentiment), score |-> score, parts |-> parts]

(* ---- Main export: analyze a DataPoint -> AnalysisResult ---- *)

snapshotAtInclusive(d, t) ==
  IF d.snapshotAt # Null /\ d.snapshotAt[1] # 0 /\ t - d.snapshotAt[1] <= 300000
  THEN d.snapshotAt[1] ELSE t

\* (dp.snapshotAt && Date.now() - dp.snapshotAt < 300_000) ? dp.snapshotAt : Date.now(),
\* both readings of the clock being the instant t of the call.
snapshotAt(d, t) ==
  IF d.snapshotAt # Null /\ d.snapshotAt[1] # 0 /\ t - d.snapshotAt[1] < 300000
  THEN d.snapshotAt[1] ELSE t

analyze(d, t) ==
  LET top10Pct == computeTop10Pct(d)
      snapshot ==
        [ priceUsd |-> safe(d.priceUsd, 0),
          marketCap |-> safe(d.marketCap, 0),
          volume24h |-> safe(d.volume24h, 0),
          liquidity |-> safe(d.liquidity, 0),
          holderCount |-> safe(d.holderCount, 0),
          \* Math.round(top10Pct * 10) / 10, in hundredths of a percent
          top10HolderPct |-> MathRound(top10Pct, 10) * 10,
          buys24h |-> safe(d.buys24h, 0),
          sells24h |-> safe(d.sells24h, 0),
          bondingProgress |-> safe(d.bondingProgress, 0),
          snapshotAt |-> snapshotAt(d, t) ]
      buyPressure == computeBuyPressure(d)
      volatilityScore == computeVolatilityScore(d)
      liquidityDepth == computeLiquidityDepth(d)
      holderConcentration == computeHolderConcentration(top10Pct)
      trendDirection == computeTrendDirection(d)
      volumeProfile == computeVolumeProfile(d)
      riskFactors == computeRiskFactors(d, top10Pct)
      riskLevel == computeRiskLevel(riskFactors, buyPressure)
      quant ==
        [ riskLevel |-> riskLevel,
          riskFactors |-> riskFactors,
          buyPressure |-> buyPressure,
          volatilityScore |-> volatilityScore,
          liquidityDepth |-> liquidityDepth,
          holderConcentration |-> holderConcentration,
          trendDirection |-> trendDirection,
          volumeProfile |-> volumeProfile ]
      score == computeScore(buyPressure, volatilityScore, riskLevel, trendDirection,
                            liquidityDepth)
      sentiment == computeSentiment(score, riskLevel)
      summary == generateSummary(d, sentiment, score, quant, top10Pct)
  IN  [sentiment |-> sentiment, score |-> score, summary |-> summary,
       snapshot |-> snapshot, quant |-> quant]

(* ---- The enumerated label types ---- *)

RiskLevels == {"critical", "high", "medium", "low"}

LiquidityDepths == {"deep", "moderate", "shallow", "dry"}

HolderConcentrations == {"distributed", "moderate", "concentrated", "whale_dominated"}

TrendDirections == {"up", "down", "sideways", "reversal"}

VolumeProfiles == {"surging", "rising", "stable", "declining", "dead"}

Sentiments == {"bullish", "bearish", "neutral"}

RiskFactor ==
  { "whale_dominance", "creator_holds_majority", "low_liquidity", "no_liquidity_lock",
    "high_concentration", "rug_pattern", "honeypot_risk", "wash_trading",
    "bonding_curve_risk", "rapid_sell_off", "no_social_presence", "fake_volume",
    "supply_manipulation", "dev_wallet_active", "copy_token", "no_website",
    "new_deployer", "single_holder_majority", "declining_holders", "dead_volume",
    "healthy_distribution", "strong_community", "organic_volume", "locked_liquidity",
    "verified_socials", "active_development", "growing_holders", "smart_money_inflow" }

(* ---- Bounds of the inputs ---- *)

MaxTrades == 12

MaxChange == 13

MaxVol == 130

MaxHolders == 11

(* ---- The DataPoints analyzed ---- *)

\* A graduated token with a website, no negative signal and no price change.
Base ==
  [ priceUsd |-> Some(12), marketCap |-> Some(100000), volume24h |-> Some(20000),
    liquidity |-> Some(300000), holderCount |-> Some(150),
    buys24h |-> Some(10), sells24h |-> Some(10),
    bondingComplete |-> TRUE, bondingProgress |-> Some(Pct(100)),
    priceChange1h |-> Null, priceChange24h |-> Null,
    top10Holding |-> Some(Pct(40)), topHolders |-> <<>>,
    creatorHolding |-> Null, snipersHolding |-> Null, insidersHolding |-> Null,
    website |-> Some("https://w"), twitter |-> Null, telegram |-> Null,
    snapshotAt |-> Null ]

Link(s) == {Null, Some(s)}

\* Every combination of the inputs of the risk checklist, each on both sides
\* of its threshold.
RiskPoints ==
  { [Base EXCEPT !.liquidity = liq, !.top10Holding = top10, !.topHolders = holders,
                 !.creatorHolding = creator,
                 !.bondingComplete = bonding[1], !.bondingProgress = bonding[2],
                 !.website = web, !.twitter = tw, !.telegram = tg,
                 !.snipersHolding = snipers, !.insidersHolding = insiders,
                 !.buys24h = trades[1], !.sells24h = trades[2],
                 !.volume24h = vol, !.holderCount = hc, !.priceChange24h = ch24h] :
      liq \in {Null, Some(60000)},
      top10 \in {Null, Some(Pct(25)), Some(Pct(60)), Some(Pct(90))},
      holders \in {<<>>, <<[pct |-> Some(Pct(60))], [pct |-> Some(Pct(5))]>>},
      creator \in {Null, Some(Pct(40))},
      bonding \in {<<TRUE, Some(Pct(100))>>, <<FALSE, Some(Pct(10))>>},
      web \in Link("https://w"), tw \in Link("https://x.com/t"), tg \in Link("https://t.me/t"),
      snipers \in {Null, Some(Pct(25))},
      insiders \in {Null, Some(Pct(20))},
      trades \in {<<Some(10), Some(10)>>, <<Some(5), Some(30)>>},
      vol \in {Some(500), Some(60000)},
      hc \in {Some(50), Some(600)},
      ch24h \in {Null, Some(Pct(-25))} }

TradeCounts == Opt((0..MaxTrades) \cup {21, 50, 200, 1000})

\* Buy and sell counts with no price change known.
TradePoints ==
  { [Base EXCEPT !.buys24h = buys, !.sells24h = sells] :
      buys \in TradeCounts, sells \in TradeCounts }

Changes == Opt({Pct(k) : k \in (-MaxChange)..MaxChange})

\* Price changes, with three buy/sell mixes behind them.
TrendPoints ==
  { [Base EXCEPT !.priceChange1h = ch1h, !.priceChange24h = ch24h,
                 !.buys24h = trades[1], !.sells24h = trades[2]] :
      ch1h \in Changes, ch24h \in Changes,
      trades \in {<<Null, Null>>, <<Some(9), Some(1)>>, <<Some(1), Some(9)>>} }

\* Volume against market cap: ratios in steps of 1/100 and of 1/600.
VolPoints ==
  { [Base EXCEPT !.volume24h = vol, !.marketCap = mcap] :
      vol \in Opt(0..MaxVol),
      mcap \in {Null, Some(-5), Some(0), Some(100), Some(600)} }

Liquidities ==
  Opt({0, 49999, 50000, 249999, 250000, 999999, 1000000, 2000000})

\* Liquidity at each tier boundary, under every trend, both volatility
\* classes, with and without a website, before and after bonding, and five
\* buy/sell mixes.
MixPoints ==
  { [Base EXCEPT !.liquidity = liq,
                 !.priceChange1h = ch[1], !.priceChange24h = ch[2],
                 !.volume24h = vol, !.website = web,
                 !.bondingComplete = bonding[1], !.bondingProgress = bonding[2],
                 !.buys24h = trades[1], !.sells24h = trades[2]] :
      liq \in Liquidities,
      bonding \in {<<TRUE, Some(Pct(100))>>, <<FALSE, Null>>},
      ch \in {<<Null, Null>>, <<Some(Pct(10)), Some(Pct(10))>>,
              <<Some(Pct(-10)), Null>>, <<Some(Pct(6)), Some(Pct(-11))>>},
      vol \in {Some(20000), Some(90000)},
      web \in Link("https://w"),
      trades \in {<<Some(0), Some(0)>>, <<Some(1), Some(3)>>, <<Some(10), Some(10)>>,
                  <<Some(200), Some(0)>>, <<Some(1), Some(1000)>>} }

\* The top-10 aggregate on both sides of each tier boundary, with and without
\* a holders list behind it.
ConcentrationPoints ==
  { [Base EXCEPT !.top10Holding = top10, !.topHolders = holders] :
      top10 \in Opt({0, Pct(20), Pct(20) + 10, Pct(30), Pct(30) + 1, Pct(50), Pct(50) + 10,
                     Pct(80), Pct(80) + 10, Pct(100)}),
      holders \in {<<>>, <<[pct |-> Some(Pct(50))]>>, <<[pct |-> Some(Pct(50) + 1)]>>,
                   <<[pct |-> Null], [pct |-> Some(Pct(20) + 10)]>>} }

HolderLists ==
  UNION {[1..n -> {[pct |-> Some(Pct(4) + 2)], [pct |-> Some(Pct(9) + 4)]}] : n \in 0..MaxHolders}

\* No top-10 aggregate: ranked holders lists of up to MaxHolders entries
\* holding 4.03% or 9.04% each.
HolderPoints == {[Base EXCEPT !.top10Holding = Null, !.topHolders = hs] : hs \in HolderLists}

\* The instants of analysis, in milliseconds (a clock scaled to the checker's integers).
Clocks == {1700000000, 1700300000}

\* Capture times around the 5-minute limit before the instant t: absent, zero,
\* just older, exactly 5 minutes, just younger, current, and ahead of the clock.
TimePoints(t) ==
  { [Base EXCEPT !.snapshotAt = s] :
      s \in Opt({0, t - 300001, t - 300000, t - 299999, t - 1, t, t + 5000}) }

\* A DataPoint with every field present.
Full ==
  [ priceUsd |-> Some(12), marketCap |-> Some(100000), volume24h |-> Some(60000),
    liquidity |-> Some(40000), holderCount |-> Some(90),
    buys24h |-> Some(5), sells24h |-> Some(30),
    bondingComplete |-> FALSE, bondingProgress |-> Some(Pct(10)),
    priceChange1h |-> Some(Pct(-6)), priceChange24h |-> Some(Pct(-25)),
    top10Holding |-> Some(Pct(90)),
    topHolders |-> <<[pct |-> Some(Pct(60))], [pct |-> Some(Pct(5))]>>,
    creatorHolding |-> Some(Pct(40)), snipersHolding |-> Some(Pct(25)),
    insidersHolding |-> Some(Pct(20)),
    website |-> Some("https://w"), twitter |-> Some("https://x.com/t"),
    telegram |-> Some("https://t.me/t"),
    snapshotAt |-> Some(1699990000) ]

\* The fields that may be null or absent: the numeric fields, the holding
\* percentages, the social links and the topHolders list.
NullableFields == DOMAIN Full \ {"bondingComplete"}

\* The DataPoint d with the fields of the set absent left out.
Without(d, absent) == [f \in DOMAIN d |-> IF f \in absent THEN Null ELSE d[f]]

\* The inputs of the risk checklist at their thresholds and one step past them.
ThresholdPoints ==
  { [Base EXCEPT !.liquidity = liq, !.top10Holding = top10, !.creatorHolding = creator,
                 !.bondingComplete = FALSE, !.bondingProgress = progress,
                 !.snipersHolding = snipers, !.insidersHolding = insiders,
                 !.buys24h = trades[1], !.sells24h = trades[2],
                 !.volume24h = vol, !.holderCount = hc, !.priceChange24h = ch24h] :
      liq \in {Some(49999), Some(50000)},
      top10 \in {Some(Pct(30)), Some(Pct(30) + 1)},
      creator \in {Null, Some(Pct(30)), Some(Pct(30) + 1)},
      progress \in {Some(Pct(30) - 1), Some(Pct(30))},
      snipers \in {Some(Pct(20)), Some(Pct(20) + 1)},
      insiders \in {Some(Pct(15)), Some(Pct(15) + 1)},
      trades \in {<<Some(8), Some(10)>>, <<Some(9), Some(10)>>},
      vol \in {Some(0), Some(999), Some(1000), Some(50000), Some(50001)},
      hc \in {Some(100), Some(101), Some(200), Some(201), Some(500), Some(501)},
      ch24h \in {Some(Pct(-20)), Some(Pct(-20) - 1)} }

\* The families of DataPoints analyzed.
IsDataPoint(d) ==
  \/ d \in RiskPoints
  \/ d \in TradePoints
  \/ d \in TrendPoints
  \/ d \in VolPoints
  \/ d \in MixPoints
  \/ d \in ConcentrationPoints
  \/ d \in HolderPoints
  \/ d \in ThresholdPoints

\* The arguments computeScore is called with, in isolation.
ScoreArgs ==
  [ buyPressure : 0..100, volatilityScore : {10, 50, 70, 71, 95},
    riskLevel : RiskLevels, trendDirection : TrendDirections,
    liquidityDepth : LiquidityDepths ]

(* ---- The state machine ---- *)

\* The analyzer called on its own: no agent process, no API call.
NoAgent ==
  /\ apiKey = "ps_live_key"
  /\ calls = <<>>
  /\ reply = Null
  /\ exit = Null

\* A call of analyze(dp) at time now is pending, or a call of computeScore(args).
InitAnalyze ==
  /\ pc = "analyze"
  /\ \/ IsDataPoint(dp) /\ now = 1700000000
     \/ \E t \in Clocks : dp \in TimePoints(t) /\ now = t
  /\ result = Null
  /\ args = Null
  /\ NoAgent

InitScore ==
  /\ pc = "computeScore"
  /\ dp = Base
  /\ now = 1700000000
  /\ result = Null
  /\ args \in ScoreArgs
  /\ NoAgent

Init == InitAnalyze \/ InitScore

Analyze ==
  /\ pc = "analyze"
  /\ result' = analyze(dp, now)
  /\ pc' = "analyzed"
  /\ UNCHANGED <<dp, now, args, apiKey, calls, reply, exit>>

ComputeScore ==
  /\ pc = "computeScore"
  /\ result' = computeScore(args.buyPressure, args.volatilityScore, args.riskLevel,
                            args.trendDirection, args.liquidityDepth)
  /\ pc' = "scored"
  /\ UNCHANGED <<dp, now, args, apiKey, calls, reply, exit>>

Next == Analyze \/ ComputeScore

Spec == Init /\ [][Next]_vars

\* analyze called on a DataPoint with any subset of its nullable fields absent.
InitPartial ==
  /\ pc = "analyze"
  /\ \E absent \in SUBSET NullableFields : dp = Without(Full, absent)
  /\ now = 1700000000
  /\ result = Null
  /\ args = Null
  /\ NoAgent

NextPartial == Analyze

SpecPartial == InitPartial /\ [][NextPartial]_vars

(* ---- The agent: main() of index.ts ---- *)

\* !API_KEY || API_KEY === "ps_your_key_here", with the placeholder taken for a key.
NoApiKeyOnlyEmpty(key) == key = ""

\* !API_KEY || API_KEY === "ps_your_key_here"
NoApiKey(key) == key = "" \/ key = "ps_your_key_here"

\* A request of the client either throws (network failure, non-JSON body,
\* HTTP status not ok) or returns the parsed body.
Threw == [threw |-> TRUE]

RegisterReplies ==
  {Threw} \cup [threw : {FALSE}, ok : BOOLEAN, key : {Null, Some(""), Some("ps_new_key")}]

ProfileReplies == {Threw} \cup [threw : {FALSE}, ok : BOOLEAN, profile : BOOLEAN]

SetProfileReplies == {Threw} \cup [threw : {FALSE}, ok : BOOLEAN]

Mints ==
  {Null, Some(""), Some("So1111111111111111111111111111111"),
   Some("So11111111111111111111111111111112")}

MaxTokens == 2

MarketReplies ==
  {Threw} \cup
  { [threw |-> FALSE, data |-> ts] :
      ts \in UNION {[1..n -> [mint : Mints]] : n \in 0..MaxTokens} }

DataPointReplies ==
  {Threw, [threw |-> FALSE, data |-> Null]} \cup
  { [threw |-> FALSE, data |-> Some(d)] : d \in {Base, Full, Without(Full, NullableFields)} }

SubmitReplies == {Threw} \cup [threw : {FALSE}, ok : BOOLEAN]

\* tokens.find((t) => t.mint && t.mint.length >= 32): the index of the first
\* token with a valid mint, 0 when there is none.
FindTarget(tokens) ==
  LET valid == {i \in DOMAIN tokens : Truthy(tokens[i].mint) /\ Len(tokens[i].mint[1]) >= 32}
  IN  IF valid = {} THEN 0 ELSE CHOOSE i \in valid : \A j \in valid : i <= j

\* process.exit(code)
Exit(code) ==
  /\ pc' = "exit"
  /\ exit' = Some(code)

InitAgent ==
  /\ pc = "main"
  /\ apiKey \in {"", "ps_your_key_here", "ps_live_key"}
  /\ calls = <<>>
  /\ reply = Null
  /\ exit = Null
  /\ dp = Null
  /\ now = 1700000000
  /\ result = Null
  /\ args = Null

\* Step 0: with no API key the agent calls register, otherwise getProfile.
Main ==
  /\ pc = "main"
  /\ IF NoApiKey(apiKey)
     THEN calls' = Append(calls, "register") /\ pc' = "register"
     ELSE calls' = Append(calls, "getProfile") /\ pc' = "getProfile"
  /\ UNCHANGED <<dp, now, result, args, apiKey, reply, exit>>

\* register returns or throws: exit 0 with a key, exit 1 otherwise.
RegisterReturns ==
  /\ pc = "register"
  /\ \E r \in RegisterReplies :
       /\ reply' = r
       /\ IF ~r.threw /\ r.ok /\ Truthy(r.key) THEN Exit(0) ELSE Exit(1)
  /\ UNCHANGED <<dp, now, result, args, apiKey, calls>>

\* Step 1: an existing profile is kept, a failure is only warned about.
GetProfileReturns ==
  /\ pc = "getProfile"
  /\ \E r \in ProfileReplies :
       /\ reply' = r
       /\ IF ~r.threw /\ ~(r.ok /\ r.profile)
          THEN calls' = Append(calls, "setProfile") /\ pc' = "setProfile"
          ELSE calls' = Append(calls, "getMarket") /\ pc' = "getMarket"
  /\ UNCHANGED <<dp, now, result, args, apiKey, exit>>

SetProfileReturns ==
  /\ pc = "setProfile"
  /\ \E r \in SetProfileReplies : reply' = r
  /\ calls' = Append(calls, "getMarket")
  /\ pc' = "getMarket"
  /\ UNCHANGED <<dp, now, result, args, apiKey, exit>>

\* Step 2: pick the first token with a valid mint.  Logging t.mint.slice of a
\* token without a mint throws out of main, which exits 1.
GetMarketReturns ==
  /\ pc = "getMarket"
  /\ \E r \in MarketReplies :
       /\ reply' = r
       /\ IF r.threw \/ r.data = <<>> THEN Exit(1) /\ UNCHANGED <<args, calls>>
          ELSE IF \E i \in DOMAIN r.data : r.data[i].mint = Null
               THEN Exit(1) /\ UNCHANGED <<args, calls>>
          ELSE IF FindTarget(r.data) = 0 THEN Exit(1) /\ UNCHANGED <<args, calls>>
          ELSE /\ args' = r.data[FindTarget(r.data)]
               /\ calls' = Append(calls, "getDataPoint")
               /\ pc' = "getDataPoint"
               /\ UNCHANGED exit
  /\ UNCHANGED <<dp, now, result, apiKey>>

\* Steps 3 to 5: the DataPoint is analyzed and the analysis submitted.
GetDataPointReturns ==
  /\ pc = "getDataPoint"
  /\ \E r \in DataPointReplies :
       /\ reply' = r
       /\ IF r.threw \/ r.data = Null THEN Exit(1) /\ UNCHANGED <<dp, result, calls>>
          ELSE /\ dp' = r.data[1]
               /\ result' = analyze(r.data[1], now)
               /\ calls' = Append(calls, "submitAnalysis")
               /\ pc' = "submitAnalysis"
               /\ UNCHANGED exit
  /\ UNCHANGED <<now, args, apiKey>>

\* Accepted, rejected or failed, the submission ends main: the process exits 0.
SubmitAnalysisReturns ==
  /\ pc = "submitAnalysis"
  /\ \E r \in SubmitReplies : reply' = r
  /\ Exit(0)
  /\ UNCHANGED <<dp, now, result, args, apiKey, calls>>

NextAgent ==
  \/ Main
  \/ RegisterReturns
  \/ GetProfileReturns
  \/ SetProfileReturns
  \/ GetMarketReturns
  \/ GetDataPointReturns
  \/ SubmitAnalysisReturns

\* Every request is answered or fails, and main then runs on.
SpecAgent == InitAgent /\ [][NextAgent]_vars /\ WF_vars(NextAgent)

(* ---- Properties ---- *)

Analyzed == pc = "analyzed"

\* The tags of a list that are not among the 8 positive ones.
NegativeTags(factors) == {factors[i] : i \in 1..Len(factors)} \ positiveFactors

NegCount(factors) == Cardinality({i \in 1..Len(factors) : factors[i] \notin positiveFactors})

\* C1: for every DataPoint, analyze returns an integer score in [0,100], an
\* integer buyPressure in [0,100] and an integer volatilityScore in [10,95].
C1_Ranges ==
  Analyzed =>
    /\ result.score \in 0..100
    /\ result.quant.buyPressure \in 0..100
    /\ result.quant.volatilityScore \in 10..95

\* A result whose unclamped score is negative: no buy pressure, a down trend,
\* high risk, dry liquidity and a volatility above 70.
C1_Witness ==
  /\ Analyzed
  /\ result.score = 0
  /\ result.quant.buyPressure = 0
  /\ result.quant.volatilityScore > 70
  /\ result.quant.trendDirection = "down"
  /\ result.quant.riskLevel = "high"
  /\ result.quant.liquidityDepth = "dry"

\* C2: riskFactors has between 1 and 8 tags, no tag twice, and every tag is
\* one of the 28 tags of the vocabulary.
C2_RiskFactorsShape ==
  Analyzed =>
    LET f == result.quant.riskFactors
    IN  /\ Len(f) \in 1..8
        /\ \A i, j \in 1..Len(f) : i # j => f[i] # f[j]
        /\ \A i \in 1..Len(f) : f[i] \in RiskFactor
        /\ Cardinality(RiskFactor) = 28

\* A DataPoint that hits more than 8 lines of the checklist, cut to 8 tags.
C2_Witness ==
  /\ Analyzed
  /\ Len(checklist(dp, computeTop10Pct(dp))) > 8
  /\ Len(result.quant.riskFactors) = 8

\* C3: riskLevel is decided by first match over the returned riskFactors and
\* buyPressure: critical if a critical tag is present or negCount >= 5; else
\* high if negCount >= 3 or buyPressure < 25; else medium if negCount >= 1;
\* else low.  A token whose only negative tag is no_website, with
\* buyPressure >= 25, is medium.
C3_RiskLevel ==
  Analyzed =>
    LET f == result.quant.riskFactors
        tags == {f[i] : i \in 1..Len(f)}
        negCount == NegCount(f)
        bp == result.quant.buyPressure
        critical == \/ tags \cap {"rug_pattern", "honeypot_risk", "single_holder_majority"} # {}
                    \/ negCount >= 5
        high == negCount >= 3 \/ bp < 25
        level == result.quant.riskLevel
    IN  /\ level = "critical" <=> critical
        /\ level = "high" <=> ~critical /\ high
        /\ level = "medium" <=> ~critical /\ ~high /\ negCount >= 1
        /\ level = "low" <=> ~critical /\ ~high /\ negCount = 0
        /\ (NegativeTags(f) = {"no_website"} /\ bp >= 25) => level = "medium"

\* no_website is the only negative tag, next to positive ones: medium.
C3_Witness ==
  /\ Analyzed
  /\ NegativeTags(result.quant.riskFactors) = {"no_website"}
  /\ InSeq("verified_socials", result.quant.riskFactors)
  /\ InSeq("growing_holders", result.quant.riskFactors)
  /\ result.quant.buyPressure >= 25
  /\ result.quant.riskLevel = "medium"

\* The adjustments of the score, doubled.
TrendAdj2 == [t \in TrendDirections |->
  CASE t = "up" -> 20 [] t = "down" -> -20 [] t = "reversal" -> -10 [] t = "sideways" -> 0]

RiskAdj2 == [r \in RiskLevels |->
  CASE r = "critical" -> -40 [] r = "high" -> -20 [] r = "medium" -> 0 [] r = "low" -> 20]

LiqAdj2 == [l \in LiquidityDepths |->
  CASE l = "deep" -> 10 [] l = "dry" -> -20 [] l = "moderate" -> 0 [] l = "shallow" -> 0]

\* clamp(round(50 + (bp - 50) * 0.5 + trendAdj + volAdj + riskAdj + liqAdj), 0, 100):
\* the integer n of 0..100 nearest to the sum (a half going up), or the end
\* of the range the sum lies beyond.
IsScoreOf(n, bp, vs, risk, trend, liq) ==
  LET sum2 == 100 + (bp - 50) + TrendAdj2[trend] + (IF vs > 70 THEN -10 ELSE 0)
              + RiskAdj2[risk] + LiqAdj2[liq]
  IN  /\ n \in 0..100
      /\ \/ 2 * n - 1 <= sum2 /\ sum2 < 2 * n + 1
         \/ n = 0 /\ sum2 < 0
         \/ n = 100 /\ sum2 > 200

\* C4: the composite score equals clamp(round(50 + (buyPressure-50)*0.5 +
\* trendAdj + volAdj + riskAdj + liqAdj), 0, 100) for every combination of
\* the five inputs, and analyze passes it the labels of the same result.
C4_ScoreFormula ==
  /\ pc = "scored" =>
       IsScoreOf(result, args.buyPressure, args.volatilityScore, args.riskLevel,
                 args.trendDirection, args.liquidityDepth)
  /\ Analyzed =>
       IsScoreOf(result.score, result.quant.buyPressure, result.quant.volatilityScore,
                 result.quant.riskLevel, result.quant.trendDirection,
                 result.quant.liquidityDepth)

\* 50 + 0.5 - 5 (reversal) - 5 (volatility 71) + 10 (low) - 10 (dry) = 40.5 -> 41
C4_Witness ==
  /\ pc = "scored"
  /\ args = [buyPressure |-> 51, volatilityScore |-> 71, riskLevel |-> "low",
             trendDirection |-> "reversal", liquidityDepth |-> "dry"]
  /\ result = 41

\* C5: sentiment is bearish whenever riskLevel is critical or score < 35;
\* otherwise bullish iff score > 65 and riskLevel is not high; otherwise
\* neutral.  No result is bullish with riskLevel high or critical, and a
\* result with score > 65 and riskLevel high is neutral.
C5_Sentiment ==
  Analyzed =>
    LET level == result.quant.riskLevel
        score == result.score
        bearish == level = "critical" \/ score < 35
    IN  /\ bearish => result.sentiment = "bearish"
        /\ ~bearish => (result.sentiment = "bullish" <=> (score > 65 /\ level # "high"))
        /\ ~bearish => result.sentiment \in {"bullish", "neutral"}
        /\ result.sentiment = "bullish" => level \notin {"high", "critical"}
        /\ (score > 65 /\ level = "high") => result.sentiment = "neutral"

\* A score above 65 demoted to neutral by a high risk level.
C5_Witness ==
  /\ Analyzed
  /\ result.score > 65
  /\ result.quant.riskLevel = "high"
  /\ result.sentiment = "neutral"

NoPriceChange == dp.priceChange1h = Null /\ dp.priceChange24h = Null

NoActivity == safe(dp.buys24h, 0) + safe(dp.sells24h, 0) = 0

\* C6 as stated: with both price changes absent and buys24h + sells24h = 0,
\* the fallback ratio counts as 0 and trendDirection is "down".
C6_AsStated ==
  (Analyzed /\ NoPriceChange /\ NoActivity) => result.quant.trendDirection = "down"

\* C6 as amended: with both price changes absent and buys24h + sells24h = 0,
\* trendDirection is "sideways"; no ratio is computed.
C6_ZeroActivitySideways ==
  (Analyzed /\ NoPriceChange /\ NoActivity) => result.quant.trendDirection = "sideways"

\* A token with zero buys and zero sells and no price change, analyzed.
C6_Witness ==
  /\ Analyzed
  /\ NoPriceChange
  /\ dp.buys24h = Some(0) /\ dp.sells24h = Some(0)
  /\ result.quant.buyPressure = 50

VolGrid ==
  { <<vol, mcap, computeVolatilityScore([Base EXCEPT !.volume24h = Some(vol),
                                                       !.marketCap = Some(mcap)])>> :
      vol \in 0..MaxVol, mcap \in {100, 600} }

\* C9: for market cap > 0 the volatility score is a non-decreasing function of
\* ratio = volume24h/marketCap, and at ratio 0.05, 0.2 and 0.5 the formula of
\* the band below and the formula of the band above both round to 25, 50 and
\* 75; for market cap <= 0 the score is 50.
C9_Volatility ==
  (Analyzed /\ dp.marketCap # Null) =>
    LET vol == safe(dp.volume24h, 0)
        mcap == dp.marketCap[1]
        vs == result.quant.volatilityScore
    IN  IF mcap <= 0 THEN vs = 50
        ELSE /\ \A g \in VolGrid :
                  /\ vol * g[2] <= g[1] * mcap => vs <= g[3]
                  /\ vol * g[2] >= g[1] * mcap => vs >= g[3]
             /\ 20 * vol = mcap =>
                  VolLow(vol, mcap) = 25 /\ VolModerate(vol, mcap) = 25 /\ vs = 25
             /\ 5 * vol = mcap =>
                  VolModerate(vol, mcap) = 50 /\ VolHigh(vol, mcap) = 50 /\ vs = 50
             /\ 2 * vol = mcap =>
                  VolHigh(vol, mcap) = 75 /\ VolExtreme(vol, mcap) = 75 /\ vs = 75

\* The ratio is exactly 0.2 (120 / 600), where the moderate band hands over to
\* the high band.
C9_Witness ==
  /\ Analyzed
  /\ dp.volume24h = Some(120) /\ dp.marketCap = Some(600)
  /\ result.quant.volatilityScore = 50

RECURSIVE SumOfRanks(_, _)
SumOfRanks(hs, n) ==
  IF n = 0 THEN 0
  ELSE (IF hs[n].pct = Null THEN 0 ELSE hs[n].pct[1]) + SumOfRanks(hs, n - 1)

\* The top-10 percentage of a DataPoint: the aggregate when present, else the
\* pct of the entries ranked 1 to 10 of the holders list added up, else 0.
Top10Of(d) ==
  IF d.top10Holding # Null THEN d.top10Holding[1]
  ELSE IF Len(d.topHolders) > 10 THEN SumOfRanks(d.topHolders, 10)
  ELSE SumOfRanks(d.topHolders, Len(d.topHolders))

\* C11: holderConcentration is whale_dominated iff the top-10 percentage is
\* > 80, concentrated iff 50 < pct <= 80, moderate iff 20 < pct <= 50,
\* distributed iff pct <= 20; exactly 80 is not whale_dominated.
C11_HolderConcentration ==
  Analyzed =>
    LET pct == Top10Of(dp)
        label == result.quant.holderConcentration
    IN  /\ label = "whale_dominated" <=> pct > Pct(80)
        /\ label = "concentrated" <=> (Pct(50) < pct /\ pct <= Pct(80))
        /\ label = "moderate" <=> (Pct(20) < pct /\ pct <= Pct(50))
        /\ label = "distributed" <=> pct <= Pct(20)

\* A top-10 aggregate of exactly 80% is concentrated, not whale_dominated.
C11_Witness ==
  /\ Analyzed
  /\ dp.top10Holding = Some(Pct(80))
  /\ result.quant.holderConcentration = "concentrated"


\* C12: snapshot.snapshotAt is the DataPoint's capture time when that time is
\* less than 300,000 ms before the instant of analysis, and the instant of
\* analysis otherwise; the returned timestamp is never 300,000 ms or more old,
\* and a stale DataPoint is analyzed like any other.
C12_SnapshotAt ==
  Analyzed =>
    LET s == dp.snapshotAt
        at == result.snapshot.snapshotAt
    IN  /\ at = (IF s # Null /\ now - s[1] < 300000 THEN s[1] ELSE now)
        /\ now - at < 300000
        /\ result.sentiment \in Sentiments

C12_Witness ==
  /\ Analyzed
  /\ dp.snapshotAt = Some(now - 300000)
  /\ result.snapshot.snapshotAt = now

\* C13: the top-10 percentage analyze works with is top10Holding when present,
\* otherwise the sum of pct over the first 10 entries of topHolders at most,
\* otherwise 0; snapshot.top10HolderPct is that value rounded to one decimal
\* (the multiple of 0.1 nearest to it), and the concentration label is read
\* from the same value.
C13_Top10Pct ==
  Analyzed =>
    LET pct == Top10Of(dp)
        r == result.snapshot.top10HolderPct
    IN  /\ r % 10 = 0
        /\ r - 5 <= pct /\ pct < r + 5
        /\ (dp.top10Holding = Null /\ dp.topHolders = <<>>) => r = 0
        /\ result.quant.holderConcentration = "whale_dominated" <=> pct > Pct(80)

C13_Witness ==
  /\ Analyzed
  /\ dp.top10Holding = Null
  /\ Len(dp.topHolders) > 10
  /\ dp.topHolders[11].pct # Null
  /\ result.snapshot.top10HolderPct # SumOfRanks(dp.topHolders, 10)
  /\ result.snapshot.top10HolderPct < SumOfRanks(dp.topHolders, 11)

NumericSnapshotFields ==
  {"priceUsd", "marketCap", "volume24h", "liquidity", "holderCount", "top10HolderPct",
   "buys24h", "sells24h", "bondingProgress", "snapshotAt"}

\* C15: analyze is total: whichever of the numeric fields, holding
\* percentages, social links and the topHolders list are null or absent, the
\* call returns, and returns all five parts, with every snapshot field a
\* number and every categorical field one of its enumerated values.
C15_Total ==
  Analyzed =>
    /\ DOMAIN result = {"sentiment", "score", "summary", "snapshot", "quant"}
    /\ result.sentiment \in Sentiments
    /\ result.score \in 0..100
    /\ Len(result.summary.parts) >= 3
    /\ DOMAIN result.snapshot = NumericSnapshotFields
    /\ \A f \in NumericSnapshotFields : result.snapshot[f] >= 0
    /\ DOMAIN result.quant =
         {"riskLevel", "riskFactors", "buyPressure", "volatilityScore", "liquidityDepth",
          "holderConcentration", "trendDirection", "volumeProfile"}
    /\ result.quant.riskLevel \in RiskLevels
    /\ Len(result.quant.riskFactors) >= 1
    /\ \A i \in DOMAIN result.quant.riskFactors : result.quant.riskFactors[i] \in RiskFactor
    /\ result.quant.buyPressure \in 0..100
    /\ result.quant.volatilityScore \in 0..100
    /\ result.quant.liquidityDepth \in LiquidityDepths
    /\ result.quant.holderConcentration \in HolderConcentrations
    /\ result.quant.trendDirection \in TrendDirections
    /\ result.quant.volumeProfile \in VolumeProfiles

C15_Witness ==
  /\ Analyzed
  /\ \A f \in NullableFields : dp[f] = Null
  /\ result.quant.riskFactors[1] = "low_liquidity"
  /\ result.quant.liquidityDepth = "dry"
  /\ result.quant.volumeProfile = "dead"
  /\ result.snapshot.snapshotAt = now

AuthenticatedCalls == {"getProfile", "setProfile", "getMarket", "getDataPoint", "submitAnalysis"}

NoKeySafe ==
  apiKey \in {"", "ps_your_key_here"} =>
    /\ \A i \in DOMAIN calls : calls[i] \notin AuthenticatedCalls
    /\ Len(calls) <= 1
    /\ pc = "exit" =>
         /\ calls = <<"register">>
         /\ exit \in {Some(0), Some(1)}
         /\ exit = Some(0) <=> (~reply.threw /\ reply.ok /\ reply.key \notin {Null, Some("")})

\* C16: started with no API key (empty or the placeholder ps_your_key_here),
\* the agent calls register exactly once and then terminates, never calling
\* getProfile, setProfile, getMarket, getDataPoint or submitAnalysis; it exits
\* 0 iff registration returned ok with a key, and 1 when registration
\* returned an error or threw.
C16_NoKeyRegistersOnly ==
  /\ []NoKeySafe
  /\ (apiKey \in {"", "ps_your_key_here"}) ~> (pc = "exit" /\ calls = <<"register">>)

C16_Witness ==
  /\ apiKey = "ps_your_key_here"
  /\ pc = "exit"
  /\ calls = <<"register">>
  /\ reply = [threw |-> FALSE, ok |-> TRUE, key |-> Some("ps_new_key")]
  /\ exit = Some(0)

Present(link) == link # Null /\ link # Some("")

\* The risk checklist as a table: the k-th predicate and the k-th tag.
ChecklistTags ==
  << "low_liquidity", "whale_dominance", "high_concentration", "creator_holds_majority",
     "single_holder_majority", "bonding_curve_risk", "no_social_presence", "no_website",
     "dev_wallet_active", "wash_trading", "rapid_sell_off", "dead_volume",
     "declining_holders", "healthy_distribution", "verified_socials", "organic_volume",
     "growing_holders", "strong_community" >>

Num(n) == IF n = Null THEN 0 ELSE n[1]

ChecklistHolds(d, k) ==
  CASE k = 1 -> Num(d.liquidity) < 50000
    [] k = 2 -> Top10Of(d) > Pct(80)
    [] k = 3 -> Top10Of(d) > Pct(50) /\ Top10Of(d) <= Pct(80)
    [] k = 4 -> d.creatorHolding # Null /\ Num(d.creatorHolding) > Pct(30)
    [] k = 5 -> d.topHolders # <<>> /\ Num(d.topHolders[1].pct) > Pct(50)
    [] k = 6 -> ~d.bondingComplete /\ Num(d.bondingProgress) < Pct(30)
    [] k = 7 -> ~Present(d.website) /\ ~Present(d.twitter) /\ ~Present(d.telegram)
    [] k = 8 -> ~Present(d.website)
    [] k = 9 -> d.snipersHolding # Null /\ Num(d.snipersHolding) > Pct(20)
    [] k = 10 -> d.insidersHolding # Null /\ Num(d.insidersHolding) > Pct(15)
    [] k = 11 -> Num(d.sells24h) > 2 * Num(d.buys24h) /\ Num(d.sells24h) > 20
    [] k = 12 -> Num(d.volume24h) < 1000 /\ Num(d.holderCount) > 100
    [] k = 13 -> d.priceChange24h # Null /\ Num(d.priceChange24h) < Pct(-20)
    [] k = 14 -> Top10Of(d) <= Pct(30) /\ Num(d.holderCount) > 200
    [] k = 15 -> Present(d.twitter) \/ Present(d.telegram)
    [] k = 16 -> Num(d.volume24h) > 50000 /\ 5 * Num(d.buys24h) > 4 * Num(d.sells24h)
    [] k = 17 -> Num(d.holderCount) > 500
    [] k = 18 -> Present(d.twitter)

\* The tags of the predicates that hold among the first k, in checklist order.
RECURSIVE HitTags(_, _)
HitTags(d, k) ==
  IF k = 0 THEN <<>>
  ELSE HitTags(d, k - 1) \o (IF ChecklistHolds(d, k) THEN <<ChecklistTags[k]>> ELSE <<>>)

AllHits(d) == HitTags(d, Len(ChecklistTags))

FirstEight(s) == [i \in 1..(IF Len(s) < 8 THEN Len(s) ELSE 8) |-> s[i]]

\* C17: riskFactors is the first 8 of the tags of the checklist predicates
\* that hold, in checklist order; when none holds it is [organic_volume] if
\* liquidity >= 50,000, else [low_liquidity].
C17_RiskFactorsChecklist ==
  Analyzed =>
    LET hits == AllHits(dp)
    IN  result.quant.riskFactors =
          IF hits # <<>> THEN FirstEight(hits)
          ELSE IF Num(dp.liquidity) >= 50000 THEN <<"organic_volume">>
          ELSE <<"low_liquidity">>

C17_Witness ==
  /\ Analyzed
  /\ Len(AllHits(dp)) >= 10
  /\ Len(result.quant.riskFactors) = 8
  /\ result.quant.riskFactors[8] = AllHits(dp)[8]
  /\ result.quant.riskFactors[8] \in {"healthy_distribution", "verified_socials"}

\* The risk-factor fragments of a summary: the tag lists after "risk factors".
RiskFragments(summary) ==
  {summary.parts[i][2] : i \in {j \in DOMAIN summary.parts : summary.parts[j][1] = "risk factors"}}

\* C18: the 20 tags the risk level counts as negative are the 28-tag
\* vocabulary minus the 8 positive tags the summary leaves out; the summary
\* has a "risk factors" fragment iff at least one returned tag is negative,
\* and the fragment lists the negative tags of riskFactors in their order.
C18_NegativeIsNotPositive ==
  /\ negativeFactors = RiskFactor \ positiveFactors
  /\ Cardinality(negativeFactors) = 20
  /\ Cardinality(positiveFactors) = 8
  /\ Analyzed =>
       LET counted == SelectSeq(result.quant.riskFactors, LAMBDA f : f \in negativeFactors)
       IN  IF Len(counted) >= 1
           THEN RiskFragments(result.summary) = {counted}
           ELSE RiskFragments(result.summary) = {}

C18_Witness ==
  /\ Analyzed
  /\ \E i, j \in DOMAIN result.quant.riskFactors :
       /\ i < j
       /\ result.quant.riskFactors[i] \in negativeFactors
       /\ result.quant.riskFactors[j] \in positiveFactors
  /\ RiskFragments(result.summary) # {}

\* The risk level a list of tags gives at a buy pressure.
LevelOf(tags, buyPressure) ==
  LET present == {tags[i] : i \in DOMAIN tags}
      negCount == NegCount(tags)
  IN  IF present \cap {"rug_pattern", "honeypot_risk", "single_holder_majority"} # {}
         \/ negCount >= 5
      THEN "critical"
      ELSE IF negCount >= 3 \/ buyPressure < 25 THEN "high"
      ELSE IF negCount >= 1 THEN "medium"
      ELSE "low"

\* C19: the cap at 8 tags never changes the risk level: riskLevel equals the
\* level the full list of checklist hits would give, and
\* single_holder_majority, when its predicate holds, is never cut off.
C19_TruncationKeepsRiskLevel ==
  Analyzed =>
    /\ result.quant.riskLevel = LevelOf(AllHits(dp), result.quant.buyPressure)
    /\ ChecklistHolds(dp, 5) =>
         \E i \in DOMAIN result.quant.riskFactors :
           result.quant.riskFactors[i] = "single_holder_majority"

C19_Witness ==
  /\ Analyzed
  /\ Len(AllHits(dp)) > 8
  /\ NegCount(AllHits(dp)) > NegCount(result.quant.riskFactors)
  /\ ChecklistHolds(dp, 5)
  /\ result.quant.riskLevel = "critical"

HasSingleHolderMajority ==
  \E i \in DOMAIN result.quant.riskFactors :
    result.quant.riskFactors[i] = "single_holder_majority"

\* C20: whenever riskFactors contains single_holder_majority,
\* holderConcentration is concentrated or whale_dominated, never distributed
\* or moderate.  Violated: the tag is read from topHolders[0].pct and the
\* label from top10Holding, and nothing ties the two together.
C20_AsStated ==
  (Analyzed /\ HasSingleHolderMajority) =>
    result.quant.holderConcentration \in {"concentrated", "whale_dominated"}

\* What analyze does instead: the labels agree when the top-10 percentage is
\* summed from topHolders or the aggregate is above 50, and disagree when the
\* aggregate is 50 or less.
SingleHolderMajorityLabels ==
  (Analyzed /\ HasSingleHolderMajority) =>
    IF dp.top10Holding = Null \/ dp.top10Holding[1] > Pct(50)
    THEN result.quant.holderConcentration \in {"concentrated", "whale_dominated"}
    ELSE result.quant.holderConcentration \in {"moderate", "distributed"}

\* C21: whenever the snapshot reports marketCap 0 (market cap zero or absent
\* in the DataPoint), the quant reports volumeProfile dead and
\* volatilityScore 50, whatever the 24h volume.  Violated: an absent market
\* cap is 0 in the snapshot but 1 in the volume/mcap ratio.
C21_AsStated ==
  (Analyzed /\ result.snapshot.marketCap = 0) =>
    /\ result.quant.volumeProfile = "dead"
    /\ result.quant.volatilityScore = 50

\* What analyze does instead: a market cap of 0 gives dead and 50; an absent
\* market cap gives the labels of the ratio volume / 1, so 95 and surging for
\* any volume of 1 or more, and 10 and dead for no volume.
ZeroMarketCapLabels ==
  (Analyzed /\ result.snapshot.marketCap = 0) =>
    LET vol == Num(dp.volume24h)
    IN  IF dp.marketCap # Null
        THEN result.quant.volumeProfile = "dead" /\ result.quant.volatilityScore = 50
        ELSE IF vol >= 1
        THEN result.quant.volumeProfile = "surging" /\ result.quant.volatilityScore = 95
        ELSE result.quant.volumeProfile = "dead" /\ result.quant.volatilityScore = 10

HasLowLiquidity ==
  \E i \in DOMAIN result.quant.riskFactors : result.quant.riskFactors[i] = "low_liquidity"

\* C22: whenever no checklist predicate holds, the injected tag is
\* organic_volume; the low_liquidity branch of the fallback is unreachable,
\* since liquidity < 50,000 already puts low_liquidity in the list (a list of
\* [low_liquidity] alone comes from the checklist); and low_liquidity is in
\* riskFactors iff liquidityDepth is dry.  That [organic_volume] can come
\* from a DataPoint with 24h volume 0 is the state C22_Witness describes.
C22_FallbackIsOrganicVolume ==
  Analyzed =>
    /\ AllHits(dp) = <<>> =>
         /\ result.quant.riskFactors = <<"organic_volume">>
         /\ Num(dp.liquidity) >= 50000
    /\ result.quant.riskFactors = <<"low_liquidity">> => ChecklistHolds(dp, 1)
    /\ HasLowLiquidity <=> result.quant.liquidityDepth = "dry"

C22_Witness ==
  /\ Analyzed
  /\ AllHits(dp) = <<>>
  /\ dp.volume24h = Some(0)
  /\ result.snapshot.volume24h = 0
  /\ result.quant.riskFactors = <<"organic_volume">>
====
